---- MODULE Spec2Model ----
(***************************************************************************)
(* Model of the Huddlecam VISCA session (Huddlecam.js): the frame encoder, *)
(* the request/response correlator (sendCommand), the response decoders,   *)
(* the coordinate codec and the cached camera state.                       *)
(*                                                                         *)
(* JavaScript strings are sequences of one-character strings, Buffers are  *)
(* sequences of bytes (0..255).                                            *)
(***************************************************************************)
EXTENDS Integers, Sequences, FiniteSets, TLC

VARIABLES
    ops,        \* operations invoked on the Session, in invocation order
    writeQueue, \* serial.write calls whose callback has not run yet (op indices, FIFO)
    written,    \* Buffers handed to serial.write, in call order: [op, bytes]
    listeners,  \* once('data') listeners armed on the Session emitter (op indices)
    emitted,    \* events the Session has re-emitted to its subscribers: [name, data]
    received,   \* events the serial port has emitted to the Session: [name, data]
    cache,      \* the "States" fields set by the constructor
    cv,         \* coordinate codec: the integer being encoded
    cstr,       \* coordinate codec: the string value of the current stage
    cnum,       \* coordinate codec: the decoded number
    cpc,        \* coordinate codec: the stage reached
    arg,        \* encoder / decoder: the call being encoded or the reply being decoded
    res,        \* encoder / decoder: what the code computed from arg
    fpc,        \* encoder / decoder: the stage reached
    panSpeed,   \* front end: window.panSpeed
    tiltSpeed,  \* front end: window.tiltSpeed
    keys,       \* front end: the keys object (Up, Down, Left, Right)
    state,      \* front end: the state flag of each btn element
    heldKeys,   \* user: the keys physically held down
    pointer,    \* user: the btn element under the mouse pointer, or "page"
    mouseDown,  \* user: is the mouse button down
    pressedBtn, \* user: the btn pressed and neither released nor left, or "none"
    socketOut,  \* front end: the last event and the last motion event sent to the server
    moves       \* front end: the number of 'move' events sent

vars == <<ops, writeQueue, written, listeners, emitted, received, cache, cv, cstr, cnum, cpc,
          arg, res, fpc, panSpeed, tiltSpeed, keys, state, heldKeys, pointer, mouseDown,
          pressedBtn, socketOut, moves>>

sessionVars == <<ops, writeQueue, written, listeners, emitted, received, cache>>
codecVars == <<cv, cstr, cnum, cpc>>
pureVars == <<arg, res, fpc>>
userVars == <<heldKeys, pointer, mouseDown, pressedBtn>>
frontVars == <<panSpeed, tiltSpeed, keys, state, socketOut, moves, userVars>>

(***************************************************************************)
(* Bounds of the model.                                                    *)
(***************************************************************************)
MaxOps == 2
MaxEvents == 2
ApiMaxOps == 1

(***************************************************************************)
(* Program constants.                                                      *)
(***************************************************************************)
X8000 == 32768
X10000 == 65536

(***************************************************************************)
(* String and Buffer primitives of the JavaScript runtime.                 *)
(***************************************************************************)
HexDigits == <<"0","1","2","3","4","5","6","7","8","9","a","b","c","d","e","f">>

\* value of one hex character, -1 when the character is not a hex digit
HexVal(c) ==
    CASE c = "0" -> 0 [] c = "1" -> 1 [] c = "2" -> 2 [] c = "3" -> 3
      [] c = "4" -> 4 [] c = "5" -> 5 [] c = "6" -> 6 [] c = "7" -> 7
      [] c = "8" -> 8 [] c = "9" -> 9
      [] c \in {"a", "A"} -> 10 [] c \in {"b", "B"} -> 11
      [] c \in {"c", "C"} -> 12 [] c \in {"d", "D"} -> 13
      [] c \in {"e", "E"} -> 14 [] c \in {"f", "F"} -> 15
      [] OTHER -> -1

RECURSIVE NatToString16(_)
NatToString16(n) ==
    IF n < 16 THEN <<HexDigits[n + 1]>>
    ELSE NatToString16(n \div 16) \o <<HexDigits[(n % 16) + 1]>>

\* Number.prototype.toString(16) on an integer
NumToString16(n) == IF n < 0 THEN <<"-">> \o NatToString16(0 - n) ELSE NatToString16(n)

RECURSIVE Repeat(_, _)
Repeat(c, k) == IF k <= 0 THEN <<>> ELSE <<c>> \o Repeat(c, k - 1)

\* String.prototype.padStart(len, c) with a one-character pad
PadStart(s, len, c) == Repeat(c, len - Len(s)) \o s

\* cmd.replace(/\s+/g, '')
RECURSIVE StripWhitespace(_)
StripWhitespace(s) ==
    IF s = <<>> THEN <<>>
    ELSE IF Head(s) = " " THEN StripWhitespace(Tail(s))
    ELSE <<Head(s)>> \o StripWhitespace(Tail(s))

\* Buffer.from(s, 'hex'): whole pairs of hex digits, cut at the first pair
\* holding a character that is not a hex digit; a trailing odd character is dropped
RECURSIVE BufferFromHex(_)
BufferFromHex(s) ==
    IF Len(s) < 2 THEN <<>>
    ELSE IF HexVal(s[1]) < 0 \/ HexVal(s[2]) < 0 THEN <<>>
    ELSE <<16 * HexVal(s[1]) + HexVal(s[2])>> \o BufferFromHex(SubSeq(s, 3, Len(s)))

\* Buffer.prototype.toString('hex'): two lower-case digits per byte
RECURSIVE BufferToHex(_)
BufferToHex(b) ==
    IF b = <<>> THEN <<>>
    ELSE <<HexDigits[(Head(b) \div 16) + 1], HexDigits[(Head(b) % 16) + 1]>> \o BufferToHex(Tail(b))

\* String.prototype.slice(from, to) with 0 <= from <= to (zero-based, end exclusive)
Slice(s, from, to) ==
    SubSeq(s, from + 1, IF to > Len(s) THEN Len(s) ELSE to)

Clamp(x, lo, hi) == IF x < lo THEN lo ELSE IF x > hi THEN hi ELSE x

(***************************************************************************)
(* Coordinate codec.                                                       *)
(***************************************************************************)
\* chunk.split('').filter((_, idx) => idx % 2 === 1).join('')
RECURSIVE extractHex(_)
extractHex(chunk) ==
    IF Len(chunk) < 2 THEN <<>>
    ELSE <<chunk[2]>> \o extractHex(SubSeq(chunk, 3, Len(chunk)))

\* parseInt(raw, 16) on a string of hex-digit candidates: the value of the
\* longest prefix of hex digits, NaN when that prefix is empty
RECURSIVE ParseIntAcc(_, _)
ParseIntAcc(raw, acc) ==
    IF raw = <<>> \/ HexVal(Head(raw)) < 0 THEN acc
    ELSE ParseIntAcc(Tail(raw), 16 * acc + HexVal(Head(raw)))

ParseInt16(raw) ==
    IF raw = <<>> \/ HexVal(Head(raw)) < 0 THEN [nan |-> TRUE, n |-> 0]
    ELSE [nan |-> FALSE, n |-> ParseIntAcc(raw, 0)]

\* variant of parseHex: no two's-complement reinterpretation
parseHexUnsigned(raw) == ParseInt16(raw)

parseHex(raw) ==
    LET data == ParseInt16(raw)
    IN  IF data.nan THEN data
        ELSE IF data.n >= X8000 THEN [nan |-> FALSE, n |-> data.n - X10000] ELSE data

toHex(num) ==
    LET n == IF num < 0 THEN num + X10000 ELSE num
    IN  PadStart(NumToString16(n), 4, "0")

\* the nibble expansion moveTo applies to the tilt digits: 0t0 0t1 0t2 0t3
expandTilt(tiltPos) ==
    <<"0", tiltPos[1], "0", tiltPos[2], "0", tiltPos[3], "0", tiltPos[4]>>

\* the nibble expansion moveTo applies to the pan digits: 0p0 0p0 0p2 0p3
expandPan(panPos) ==
    <<"0", panPos[1], "0", panPos[1], "0", panPos[3], "0", panPos[4]>>

(***************************************************************************)
(* Frame encoder: the cmd string each method passes to sendCommand.        *)
(***************************************************************************)
\* 'aa bb cc ...' from 'aabbcc...': the template literals separate bytes by one space
RECURSIVE SpacedBytes(_)
SpacedBytes(s) ==
    IF Len(s) <= 2 THEN s
    ELSE SubSeq(s, 1, 2) \o <<" ">> \o SpacedBytes(SubSeq(s, 3, Len(s)))

getPanSpeed(speed) == PadStart(NumToString16(Clamp(speed, 1, 18)), 2, "0")

\* variant of getTiltSpeed: the pan limit copied over
getTiltSpeedPanLimit(speed) == PadStart(NumToString16(Clamp(speed, 1, 18)), 2, "0")

getTiltSpeed(speed) == PadStart(NumToString16(Clamp(speed, 1, 14)), 2, "0")

cancelCommandCmd(socket) ==
    LET socketHex == PadStart(NumToString16(Clamp(socket, 1, 2)), 2, "0")
    IN  <<"8","x"," ","2">> \o socketHex \o <<" ","F","F">>

powerOnCmd == <<"8","1"," ","0","1"," ","0","4"," ","0","0"," ","0","2"," ","F","F">>
powerOffCmd == <<"8","1"," ","0","1"," ","0","4"," ","0","0"," ","0","3"," ","F","F">>
backlightOnCmd == <<"8","1"," ","0","1"," ","0","4"," ","3","3"," ","0","2"," ","F","F">>
backlightOffCmd == <<"8","1"," ","0","1"," ","0","4"," ","3","3"," ","0","3"," ","F","F">>
stopCmd == <<"8","1"," ","0","1"," ","0","6"," ","0","1"," ","0","0"," ","0","0"," ","0","3"," ","0","3"," ","F","F">>
homeCmd == <<"8","1"," ","0","1"," ","0","6"," ","0","4"," ","F","F">>
resetCmd == <<"8","1"," ","0","1"," ","0","6"," ","0","5"," ","F","F">>

\* variant of exposureModeCmd: no clamping, b stays '' when no case matches
exposureModeCmdUnclamped(mode) ==
    LET b == CASE mode = 0 -> <<"0">> [] mode = 1 -> <<"3">> [] mode = 2 -> <<"A">>
               [] mode = 3 -> <<"B">> [] OTHER -> <<>>
    IN  <<"8","1"," ","0","1"," ","0","4"," ","0","7"," ","0">> \o b \o <<" ","F","F">>

exposureModeCmd(mode) ==
    LET m == Clamp(mode, 0, 3)
        b == CASE m = 0 -> <<"0">> [] m = 1 -> <<"3">> [] m = 2 -> <<"A">> [] m = 3 -> <<"B">>
    IN  <<"8","1"," ","0","1"," ","0","4"," ","0","7"," ","0">> \o b \o <<" ","F","F">>

\* the two axis-direction bytes of the switch in move; <<>> when no case matches
\* variant of moveDirectionBytes: Down-Right sends the pair of Down-Left
moveDirectionBytesMerged(direction) ==
    CASE direction = 0 -> <<"0","3"," ","0","1">>
      [] direction = 1 -> <<"0","3"," ","0","2">>
      [] direction = 2 -> <<"0","1"," ","0","3">>
      [] direction = 3 -> <<"0","2"," ","0","3">>
      [] direction = 4 -> <<"0","1"," ","0","1">>
      [] direction = 5 -> <<"0","2"," ","0","1">>
      [] direction = 6 -> <<"0","1"," ","0","2">>
      [] direction = 7 -> <<"0","1"," ","0","2">>
      [] OTHER -> <<>>

moveDirectionBytes(direction) ==
    CASE direction = 0 -> <<"0","3"," ","0","1">>
      [] direction = 1 -> <<"0","3"," ","0","2">>
      [] direction = 2 -> <<"0","1"," ","0","3">>
      [] direction = 3 -> <<"0","2"," ","0","3">>
      [] direction = 4 -> <<"0","1"," ","0","1">>
      [] direction = 5 -> <<"0","2"," ","0","1">>
      [] direction = 6 -> <<"0","1"," ","0","2">>
      [] direction = 7 -> <<"0","2"," ","0","2">>
      [] OTHER -> <<>>

moveCmd(direction, ps, ts) ==
    <<"8","1"," ","0","1"," ","0","6"," ","0","1"," ">> \o getPanSpeed(ps) \o <<" ">>
        \o getTiltSpeed(ts) \o <<" ">> \o moveDirectionBytes(direction) \o <<" ","F","F">>

moveToCmd(ps, ts, pan, tilt, relative) ==
    LET panPos == toHex(pan)
        tiltPos == toHex(tilt)
        rel == IF relative THEN <<"0","3">> ELSE <<"0","2">>
    IN  <<"8","1"," ","0","1"," ","0","6"," ">> \o rel \o <<" ">> \o getPanSpeed(ps) \o <<" ">>
            \o getTiltSpeed(ts) \o <<" ">> \o SpacedBytes(expandPan(panPos)) \o <<" ">>
            \o SpacedBytes(expandTilt(tiltPos)) \o <<" ","F","F">>

powerInquiryCmd == <<"8","1"," ","0","9"," ","0","4"," ","0","0"," ","F","F">>
focusInquiryCmd == <<"8","1"," ","0","9"," ","0","4"," ","3","8"," ","F","F">>
whiteBalanceInquiryCmd == <<"8","1"," ","0","9"," ","0","4"," ","3","5"," ","F","F">>
exposureInquiryCmd == <<"8","1"," ","0","9"," ","0","4"," ","3","9"," ","F","F">>
backlightInquiryCmd == <<"8","1"," ","0","9"," ","0","4"," ","3","3"," ","F","F">>
versionInquiryCmd == <<"8","1"," ","0","9"," ","0","0"," ","0","2"," ","F","F">>
videoFormatInquiryCmd == <<"8","1"," ","0","9"," ","0","6"," ","2","3"," ","F","F">>
positionInquiryCmd == <<"8","1"," ","0","9"," ","0","6"," ","1","2"," ","F","F">>
colorFormatInquiryCmd == <<"8","1"," ","0","9"," ","7","E"," ","0","1"," ","0","3"," ","F","F">>

(***************************************************************************)
(* Calls on the Session: [name, args, rel].                                *)
(***************************************************************************)
Call(name, args) == [name |-> name, args |-> args, rel |-> FALSE]

\* methods whose body is `await this.sendCommand(cmd, true)` followed by a decode
InquiryNames == {"powerInquiry", "focusInquiry", "whiteBalanceInquiry", "exposureInquiry",
                 "backlightInquiry", "versionInquiry", "videoFormatInquiry",
                 "positionInquiry", "colorFormatInquiry"}

\* async methods whose body is `return null`
NullInquiryNames == {"zoomPosInquiry", "shutterPosInquiry", "irisPosInquiry"}

\* methods that return this.sendCommand(cmd) for every argument
CommandNames == {"cancelCommand", "powerOn", "powerOff", "exposureMode", "backlightOn",
                 "backlightOff", "moveTo", "stop", "home", "reset"}

\* does the call reach a `return this.sendCommand(...)` / `await this.sendCommand(...)`
CallsSendCommand(c) ==
    \/ c.name \in InquiryNames
    \/ c.name \in CommandNames
    \/ c.name = "move" /\ c.args[1] \in 0..7

\* the cmd argument of the sendCommand call the method makes
CmdOf(c) ==
    CASE c.name = "cancelCommand" -> cancelCommandCmd(c.args[1])
      [] c.name = "powerOn" -> powerOnCmd
      [] c.name = "powerOff" -> powerOffCmd
      [] c.name = "exposureMode" -> exposureModeCmd(c.args[1])
      [] c.name = "backlightOn" -> backlightOnCmd
      [] c.name = "backlightOff" -> backlightOffCmd
      [] c.name = "move" -> moveCmd(c.args[1], c.args[2], c.args[3])
      [] c.name = "moveTo" -> moveToCmd(c.args[1], c.args[2], c.args[3], c.args[4], c.rel)
      [] c.name = "stop" -> stopCmd
      [] c.name = "home" -> homeCmd
      [] c.name = "reset" -> resetCmd
      [] c.name = "powerInquiry" -> powerInquiryCmd
      [] c.name = "focusInquiry" -> focusInquiryCmd
      [] c.name = "whiteBalanceInquiry" -> whiteBalanceInquiryCmd
      [] c.name = "exposureInquiry" -> exposureInquiryCmd
      [] c.name = "backlightInquiry" -> backlightInquiryCmd
      [] c.name = "versionInquiry" -> versionInquiryCmd
      [] c.name = "videoFormatInquiry" -> videoFormatInquiryCmd
      [] c.name = "positionInquiry" -> positionInquiryCmd
      [] c.name = "colorFormatInquiry" -> colorFormatInquiryCmd
      [] OTHER -> <<>>

\* the inquiry argument of that sendCommand call
InquiryFlag(c) == c.name \in InquiryNames

\* what the method call evaluates to: a promise, or undefined when the body
\* ends without a return statement
ReturnOf(c) ==
    IF CallsSendCommand(c) \/ c.name \in NullInquiryNames THEN "promise" ELSE "undefined"

(***************************************************************************)
(* Response decoders: the code after `await this.sendCommand(cmd, true)`.  *)
(***************************************************************************)
NaN == [nan |-> TRUE, n |-> 0]
Num(k) == [nan |-> FALSE, n |-> k]

\* settled values of the promise a method returns
PendingValue == [tag |-> "pending", str |-> "", pan |-> NaN, tilt |-> NaN, raw |-> <<>>]
StateValue == [PendingValue EXCEPT !.tag = "State"]
NullValue == [PendingValue EXCEPT !.tag = "null"]
StringValue(name) == [PendingValue EXCEPT !.tag = "string", !.str = name]
BooleanValue(b) == [PendingValue EXCEPT !.tag = "boolean", !.str = IF b THEN "true" ELSE "false"]

\* res.response[5]: the character at zero-based index 5, "undefined" past the end
StatusChar(response) == IF Len(response) >= 6 THEN response[6] ELSE "undefined"

powerTable(b) ==
    CASE b = "2" -> "On" [] b = "3" -> "Off (standby)"
      [] b = "4" -> "Internal power circuit error" [] OTHER -> "Unknown"

focusTable(b) == CASE b = "2" -> "Auto" [] b = "3" -> "Manual" [] OTHER -> "Unknown"

whiteBalanceTable(b) ==
    CASE b = "0" -> "Auto" [] b = "1" -> "In Door" [] b = "2" -> "Out Door"
      [] b = "3" -> "One Push WB" [] b = "5" -> "Manual" [] OTHER -> "Unknown"

exposureTable(b) ==
    CASE b = "0" -> "Full Auto" [] b = "3" -> "Manual" [] b = "A" -> "Shutter Priority"
      [] b = "B" -> "Iris Priority" [] OTHER -> "Unknown"

backlightTable(b) == CASE b = "2" -> "On" [] b = "3" -> "Off" [] OTHER -> "Unknown"

videoFormatTable(b) ==
    CASE b = "1" -> "1920x1080p/30" [] b = "2" -> "1920x1080i/60" [] b = "3" -> "1280x720p/60"
      [] b = "9" -> "1920x1080p/25" [] b = "A" -> "1920x1080i/50" [] b = "B" -> "1280x720p/50"
      [] b = "D" -> "" [] OTHER -> "Unknown"

colorFormatTable(b) == CASE b = "0" -> "RGB" [] b = "1" -> "YPbPr" [] OTHER -> "Unknown"

\* variant of positionDecode: tilt read from the pan slice
positionDecodeSameSlice(response) ==
    [PendingValue EXCEPT !.tag = "position",
                         !.pan = parseHex(extractHex(Slice(response, 4, 12))),
                         !.tilt = parseHex(extractHex(Slice(response, 4, 12)))]

positionDecode(response) ==
    [PendingValue EXCEPT !.tag = "position",
                         !.pan = parseHex(extractHex(Slice(response, 4, 12))),
                         !.tilt = parseHex(extractHex(Slice(response, 12, 20)))]

\* the four slices versionInquiry hands to Number()
versionSlices(response) ==
    [PendingValue EXCEPT !.tag = "version",
                         !.raw = <<Slice(response, 4, 8), Slice(response, 8, 12),
                                   Slice(response, 12, 16), Slice(response, 16, 18)>>]

\* variant of Decode: a status outside the table fails the inquiry
DecodeRejectsUnknown(name, response) ==
    IF name \in {"focusInquiry", "whiteBalanceInquiry", "exposureInquiry", "backlightInquiry",
                 "videoFormatInquiry", "colorFormatInquiry"}
       /\ StatusChar(response) \notin {"0", "1", "2", "3"}
    THEN [PendingValue EXCEPT !.tag = "error"]
    ELSE StringValue("Unknown")

\* the value an inquiry method returns for the hex text sendCommand resolved with
Decode(name, response) ==
    CASE name = "powerInquiry" -> StringValue(powerTable(StatusChar(response)))
      [] name = "focusInquiry" -> StringValue(focusTable(StatusChar(response)))
      [] name = "whiteBalanceInquiry" -> StringValue(whiteBalanceTable(StatusChar(response)))
      [] name = "exposureInquiry" -> StringValue(exposureTable(StatusChar(response)))
      [] name = "backlightInquiry" -> StringValue(backlightTable(StatusChar(response)))
      [] name = "videoFormatInquiry" -> StringValue(videoFormatTable(StatusChar(response)))
      [] name = "colorFormatInquiry" -> StringValue(colorFormatTable(StatusChar(response)))
      [] name = "positionInquiry" -> positionDecode(response)
      [] name = "versionInquiry" -> versionSlices(response)
      [] OTHER -> StateValue

(***************************************************************************)
(* The Session state.                                                      *)
(***************************************************************************)
\* the fields the constructor initialises under "States"
States ==
    [power |-> StringValue("Unknown"), backlight |-> BooleanValue(FALSE), position |-> NullValue,
     focus |-> StringValue("Unknown"), whiteBalance |-> StringValue("Unknown"),
     exposure |-> StringValue("Unknown"), shutterPos |-> NullValue, irisPos |-> NullValue,
     videoFormat |-> StringValue("Unknown"), panTiltPos |-> NullValue,
     colorFormat |-> StringValue("Unknown")]

\* State.response of sendCommand: '' | err | true | hex text
EmptyResponse == [tag |-> "empty", hex |-> <<>>]
ErrResponse == [tag |-> "err", hex |-> <<>>]
TrueResponse == [tag |-> "true", hex |-> <<>>]
HexResponse(h) == [tag |-> "hex", hex |-> h]

\* one invoked operation.  status: "writing" (serial.write called, callback pending),
\* "awaiting" (once('data') listener armed), "resolved", "rejected", or "none" when
\* the method returned undefined.  subAt, ackAt, dataAt: the number of events emitted
\* when the method was invoked, when the write callback ran, and the index of the
\* data event that resolved it (0 = not yet).
NewOp(c, now) ==
    [call |-> c, ret |-> ReturnOf(c), inquiry |-> InquiryFlag(c),
     status |-> IF CallsSendCommand(c) THEN "writing"
                ELSE IF c.name \in NullInquiryNames THEN "resolved" ELSE "none",
     response |-> EmptyResponse,
     value |-> IF c.name \in NullInquiryNames THEN NullValue ELSE PendingValue,
     subAt |-> now, ackAt |-> 0, dataAt |-> 0]

\* variant of serialWrite: the newest frame overtakes the frames already handed over
serialWriteNewestFirst(log, i, cmd) ==
    <<[op |-> i, bytes |-> BufferFromHex(StripWhitespace(cmd)), ack |-> "pending"]>> \o log

\* variant of serialWrite: one frame buffer shared by the writes still pending
serialWriteSharedBuffer(log, i, cmd) ==
    Append([k \in 1..Len(log) |->
               IF log[k].ack = "pending"
               THEN [log[k] EXCEPT !.bytes = BufferFromHex(StripWhitespace(cmd))]
               ELSE log[k]],
           [op |-> i, bytes |-> BufferFromHex(StripWhitespace(cmd)), ack |-> "pending"])

\* this.serial.write(Buffer.from(cmd.replace(/\s+/g, ''), 'hex'), cb)
\* (ack records what the port later reports for this write: "pending", "ok", "failed")
serialWrite(log, i, cmd) ==
    Append(log, [op |-> i, bytes |-> BufferFromHex(StripWhitespace(cmd)), ack |-> "pending"])

\* the port reports the outcome of the write of operation i
serialWriteDone(log, i, err) ==
    [k \in 1..Len(log) |->
        IF log[k].op = i THEN [log[k] EXCEPT !.ack = IF err THEN "failed" ELSE "ok"]
        ELSE log[k]]

\* variant of writeCallback: no error branch, and every operation waits for data
writeCallbackAlwaysWaits(o, err, now) == [o EXCEPT !.status = "awaiting", !.ackAt = now]

\* the callback sendCommand passes to serial.write, run for operation o
writeCallback(o, err, now) ==
    IF err THEN [o EXCEPT !.status = "rejected", !.response = ErrResponse,
                          !.value = StateValue, !.ackAt = now]
    ELSE IF o.inquiry THEN [o EXCEPT !.status = "awaiting", !.ackAt = now]
    ELSE [o EXCEPT !.status = "resolved", !.response = TrueResponse,
                   !.value = StateValue, !.ackAt = now]

\* does that callback arm this.once('data', ...)
armsListener(o, err) == ~err /\ o.inquiry

\* the once('data') listener of sendCommand, then the decode of the awaiting method
dataListener(o, data, idx) ==
    [o EXCEPT !.status = "resolved", !.response = HexResponse(BufferToHex(data)),
              !.value = Decode(o.call.name, BufferToHex(data)), !.dataAt = idx]

\* variant of statesAfterSettle: a rejected power command records its target state
statesAfterSettleOptimistic(st, o) ==
    IF o.status = "rejected" /\ o.call.name = "powerOn"
    THEN [st EXCEPT !.power = StringValue("On")] ELSE st

\* the States fields after the settling code of an operation has run: no
\* method, callback or listener assigns any of them
statesAfterSettle(st, o) == st

\* variant of forward: 'data' reaches the subscribers only while an inquiry waits
forwardDataWhenAwaited(name, data) ==
    IF name = "data" /\ listeners = <<>> THEN <<>> ELSE <<[name |-> name, data |-> data]>>

\* the forwarding handlers of the constructor: the Session events emitted to the
\* subscribers for one serial event
forward(name, data) == <<[name |-> name, data |-> data]>>

\* variant of listenersAfterEmit: the listeners were registered with on()
listenersAfterEmitKept(ls) == ls

\* the once('data') listeners still registered after a 'data' emit
listenersAfterEmit(ls) == <<>>

\* variant of opsAfterTransportEvent: 'error' and 'close' reject awaiting inquiries
opsAfterTransportEventRejects(os, name) ==
    [i \in 1..Len(os) |->
        IF name \in {"error", "close"} /\ os[i].status = "awaiting"
        THEN [os[i] EXCEPT !.status = "rejected", !.response = ErrResponse]
        ELSE os[i]]

\* the reaction of the Session to a serial 'error' / 'close' / 'open' event on
\* its operations: the forwarding handlers only re-emit
opsAfterTransportEvent(os, name) == os

(***************************************************************************)
(* Inputs.                                                                 *)
(***************************************************************************)
\* reply chunks the device sends: power On, and the position reply RIGHT
\* (pan 08a8, tilt 0000)
PowerOnReply == <<144, 80, 2, 255>>
RightReply == <<144, 80, 0, 8, 10, 8, 0, 0, 0, 0, 255>>
Chunks == {PowerOnReply, RightReply}

\* calls exercised by the correlator specification
Calls == {Call("powerOn", <<>>), Call("powerInquiry", <<>>), Call("positionInquiry", <<>>)}

\* one call (or a few) of every public method, for the single-call specification
AllCalls ==
    {Call(n, <<>>) : n \in {"powerOn", "powerOff", "toggleBacklight", "backlightOn",
                            "backlightOff", "stop", "home", "reset"}
                          \cup InquiryNames \cup NullInquiryNames}
    \cup {Call("cancelCommand", <<s>>) : s \in {0, 1, 2, 5}}
    \cup {Call("exposureMode", <<m>>) : m \in {-1, 0, 1, 2, 3, 99}}
    \cup {Call("move", <<d, 8, 4>>) : d \in 0..8}
    \cup {[name |-> "moveTo", args |-> <<30, 20, 1200, -400>>, rel |-> r] : r \in BOOLEAN}

(***************************************************************************)
(* JavaScript values that are a number or a string, as the encoder gets    *)
(* them from a caller that passes on user input.                           *)
(***************************************************************************)
JsNum(k) == [t |-> "number", n |-> k, s |-> <<>>]
JsStr(txt) == [t |-> "string", n |-> 0, s |-> txt]

DecDigits == <<"0","1","2","3","4","5","6","7","8","9">>

\* String(n) / the value attribute of a range input, n >= 0
RECURSIVE NatToString10(_)
NatToString10(n) ==
    IF n < 10 THEN <<DecDigits[n + 1]>>
    ELSE NatToString10(n \div 10) \o <<DecDigits[(n % 10) + 1]>>

IsDecimalText(txt) ==
    Len(txt) > 0 /\ \A k \in 1..Len(txt) : \E d \in 1..10 : txt[k] = DecDigits[d]

RECURSIVE DecimalValue(_)
DecimalValue(txt) ==
    IF txt = <<>> THEN 0
    ELSE 10 * DecimalValue(SubSeq(txt, 1, Len(txt) - 1))
         + (CHOOSE d \in 0..9 : txt[Len(txt)] = DecDigits[d + 1])

\* ToNumber, as the relational operators apply it to an operand
ToNumber(v) ==
    IF v.t = "number" THEN Num(v.n)
    ELSE IF v.s = <<>> THEN Num(0)
    ELSE IF IsDecimalText(v.s) THEN Num(DecimalValue(v.s))
    ELSE NaN

\* getPanSpeed / getTiltSpeed for a value of either type: a string operand is
\* compared as a number, replaced by the limit when out of range, and otherwise
\* stays the string, whose toString ignores the radix
speedText(speed, hi) ==
    LET x == ToNumber(speed)
    IN  IF speed.t = "number" THEN PadStart(NumToString16(Clamp(speed.n, 1, hi)), 2, "0")
        ELSE IF ~x.nan /\ x.n < 1 THEN PadStart(NumToString16(1), 2, "0")
        ELSE IF ~x.nan /\ x.n > hi THEN PadStart(NumToString16(hi), 2, "0")
        ELSE PadStart(speed.s, 2, "0")

getPanSpeedJs(speed) == speedText(speed, 18)
getTiltSpeedJs(speed) == speedText(speed, 14)

moveCmdJs(direction, ps, ts) ==
    <<"8","1"," ","0","1"," ","0","6"," ","0","1"," ">> \o getPanSpeedJs(ps) \o <<" ">>
        \o getTiltSpeedJs(ts) \o <<" ">> \o moveDirectionBytes(direction) \o <<" ","F","F">>

\* exposureMode for a value of either type: the switch compares with ===, so a
\* string that was not replaced by a limit matches no case and b stays ''
exposureModeCmdJs(mode) ==
    LET x == ToNumber(mode)
    IN  IF mode.t = "number" THEN exposureModeCmd(mode.n)
        ELSE IF ~x.nan /\ x.n < 0 THEN exposureModeCmd(0)
        ELSE IF ~x.nan /\ x.n > 3 THEN exposureModeCmd(3)
        ELSE <<"8","1"," ","0","1"," ","0","4"," ","0","7"," ","0"," ","F","F">>

(***************************************************************************)
(* The web front end (public/main.js) before any user input.               *)
(***************************************************************************)
\* the dir attributes of the btn elements: the 8 directions and the home button
Buttons == {"0", "1", "2", "3", "4", "5", "6", "7", "home"}

ArrowKeys == {"ArrowUp", "ArrowDown", "ArrowLeft", "ArrowRight"}

InitFront ==
    /\ panSpeed = JsNum(8)
    /\ tiltSpeed = JsNum(4)
    /\ keys = [Up |-> FALSE, Down |-> FALSE, Left |-> FALSE, Right |-> FALSE]
    /\ state = [b \in Buttons |-> FALSE]
    /\ heldKeys = {}
    /\ pointer = "page"
    /\ mouseDown = FALSE
    /\ pressedBtn = "none"
    /\ socketOut = [last |-> [name |-> "none", args |-> <<>>],
                    motion |-> [name |-> "none", args |-> <<>>]]
    /\ moves = 0

(***************************************************************************)
(* Actions of the Session.                                                 *)
(***************************************************************************)
Init ==
    /\ ops = <<>>
    /\ writeQueue = <<>>
    /\ written = <<>>
    /\ listeners = <<>>
    /\ emitted = <<>>
    /\ received = <<>>
    /\ cache = States
    /\ cv = 0
    /\ cstr = <<>>
    /\ cnum = NaN
    /\ cpc = "idle"
    /\ arg = <<>>
    /\ res = <<>>
    /\ fpc = "idle"
    /\ InitFront

\* variant of Submit: cancelCommand also rejects the inquiries awaiting a reply
SubmitCancelSettlesPending(c) ==
    LET i == Len(ops) + 1
        cancels == c.name = "cancelCommand"
        settled == [k \in 1..Len(ops) |->
                      IF cancels /\ ops[k].status = "awaiting"
                      THEN [ops[k] EXCEPT !.status = "rejected", !.response = ErrResponse]
                      ELSE ops[k]]
    IN  /\ ops' = Append(settled, NewOp(c, Len(emitted)))
        /\ listeners' = IF cancels THEN <<>> ELSE listeners
        /\ IF CallsSendCommand(c)
           THEN /\ written' = serialWrite(written, i, CmdOf(c))
                /\ writeQueue' = Append(writeQueue, i)
           ELSE UNCHANGED <<written, writeQueue>>
        /\ UNCHANGED <<emitted, received, cache>>
        /\ UNCHANGED <<codecVars, pureVars, frontVars>>

\* a caller invokes method c
Submit(c) ==
    LET i == Len(ops) + 1
    IN  /\ ops' = Append(ops, NewOp(c, Len(emitted)))
        /\ IF CallsSendCommand(c)
           THEN /\ written' = serialWrite(written, i, CmdOf(c))
                /\ writeQueue' = Append(writeQueue, i)
           ELSE UNCHANGED <<written, writeQueue>>
        /\ UNCHANGED <<listeners, emitted, received, cache>>
        /\ UNCHANGED <<codecVars, pureVars, frontVars>>

Invoke == \E c \in Calls : Len(ops) < MaxOps /\ Submit(c)

InvokeApi == \E c \in AllCalls : Len(ops) < ApiMaxOps /\ Submit(c)

\* the serial port runs the callback of the oldest pending write
WriteCallback ==
    /\ writeQueue # <<>>
    /\ \E err \in BOOLEAN :
        LET i == Head(writeQueue)
            o == writeCallback(ops[i], err, Len(emitted))
        IN  /\ ops' = [ops EXCEPT ![i] = o]
            /\ listeners' = IF armsListener(ops[i], err) THEN Append(listeners, i) ELSE listeners
            /\ cache' = statesAfterSettle(cache, o)
            /\ written' = serialWriteDone(written, i, err)
    /\ writeQueue' = Tail(writeQueue)
    /\ UNCHANGED <<emitted, received>>
    /\ UNCHANGED <<codecVars, pureVars, frontVars>>

\* the serial port emits 'data': forwarded as a Session 'data' event, which runs
\* and removes every once('data') listener
Deliver(chunk) ==
    LET idx == Len(emitted) + 1
        armed == {listeners[k] : k \in 1..Len(listeners)}
    IN  /\ received' = Append(received, [name |-> "data", data |-> chunk])
        /\ emitted' = emitted \o forward("data", chunk)
        /\ ops' = [i \in 1..Len(ops) |->
                     IF i \in armed THEN dataListener(ops[i], chunk, idx) ELSE ops[i]]
        /\ listeners' = listenersAfterEmit(listeners)
        /\ UNCHANGED cache
        /\ UNCHANGED <<writeQueue, written>>
        /\ UNCHANGED <<codecVars, pureVars, frontVars>>

SerialData == Len(emitted) < MaxEvents /\ \E chunk \in Chunks : Deliver(chunk)

\* the serial port emits 'open', 'close' or 'error': forwarded, nothing else
SerialEvent(name) ==
    /\ Len(emitted) < MaxEvents
    /\ received' = Append(received, [name |-> name, data |-> <<>>])
    /\ emitted' = emitted \o forward(name, <<>>)
    /\ ops' = opsAfterTransportEvent(ops, name)
    /\ UNCHANGED <<writeQueue, written, listeners, cache>>
    /\ UNCHANGED <<codecVars, pureVars, frontVars>>

SerialOpen == SerialEvent("open")
SerialClose == SerialEvent("close")
SerialError == SerialEvent("error")

\* the correlator: submissions, write callbacks, inbound data and transport errors
Next ==
    \/ Invoke
    \/ WriteCallback
    \/ SerialData
    \/ SerialError

Spec == Init /\ [][Next]_vars

\* one call of any public method under every transport event
NextApi ==
    \/ InvokeApi
    \/ WriteCallback
    \/ SerialData
    \/ SerialOpen
    \/ SerialClose
    \/ SerialError

SpecApi == Init /\ [][NextApi]_vars

(***************************************************************************)
(* The coordinate codec as a pipeline over every 16-bit signed integer:    *)
(* #toHex, the nibble expansion of moveTo, #extractHex and #parseHex.      *)
(***************************************************************************)
Int16 == (0 - X8000)..(X8000 - 1)

InitCodec ==
    /\ ops = <<>>
    /\ writeQueue = <<>>
    /\ written = <<>>
    /\ listeners = <<>>
    /\ emitted = <<>>
    /\ received = <<>>
    /\ cache = States
    /\ cv \in Int16
    /\ cstr = <<>>
    /\ cnum = NaN
    /\ cpc = "start"
    /\ arg = <<>>
    /\ res = <<>>
    /\ fpc = "idle"
    /\ InitFront

CodecToHex ==
    /\ cpc = "start"
    /\ cstr' = toHex(cv)
    /\ cpc' = "encoded"
    /\ UNCHANGED <<cv, cnum>>
    /\ UNCHANGED <<sessionVars, pureVars, frontVars>>

CodecExpand ==
    /\ cpc = "encoded"
    /\ cstr' = expandTilt(cstr)
    /\ cpc' = "expanded"
    /\ UNCHANGED <<cv, cnum>>
    /\ UNCHANGED <<sessionVars, pureVars, frontVars>>

CodecExtractHex ==
    /\ cpc = "expanded"
    /\ cstr' = extractHex(cstr)
    /\ cpc' = "extracted"
    /\ UNCHANGED <<cv, cnum>>
    /\ UNCHANGED <<sessionVars, pureVars, frontVars>>

CodecParseHex ==
    /\ cpc = "extracted"
    /\ cnum' = parseHex(cstr)
    /\ cpc' = "decoded"
    /\ UNCHANGED <<cv, cstr>>
    /\ UNCHANGED <<sessionVars, pureVars, frontVars>>

NextCodec ==
    \/ CodecToHex
    \/ CodecExpand
    \/ CodecExtractHex
    \/ CodecParseHex

SpecCodec == InitCodec /\ [][NextCodec]_vars

(***************************************************************************)
(* The frame encoder applied to one call: the method builds its cmd string *)
(* and sendCommand turns it into the Buffer it hands to serial.write.      *)
(***************************************************************************)
\* largest speed, socket and exposure-mode arguments tried
MaxSpeedArg == 31
MaxSocketArg == 5
MaxModeArg == 99

\* pan / tilt targets tried by moveTo: 0, 0x0100, 0x1234, the positions of the
\* positionInquiry examples and the ends of the 16-bit range
CoordSamples == {0, 256, 4660, 2216, 0 - 2224, 1200, 0 - 400, X8000 - 1, 0 - X8000}

\* the methods without arguments that send a frame, and toggleBacklight
FixedNames == {"powerOn", "powerOff", "toggleBacklight", "backlightOn", "backlightOff",
               "stop", "home", "reset"} \cup InquiryNames

InitPure ==
    /\ ops = <<>>
    /\ writeQueue = <<>>
    /\ written = <<>>
    /\ listeners = <<>>
    /\ emitted = <<>>
    /\ received = <<>>
    /\ cache = States
    /\ cv = 0
    /\ cstr = <<>>
    /\ cnum = NaN
    /\ cpc = "idle"
    /\ res = <<>>
    /\ InitFront

InitEncode ==
    /\ InitPure
    /\ \/ \E n \in FixedNames : arg = Call(n, <<>>)
       \/ \E sk \in (0 - 1)..MaxSocketArg : arg = Call("cancelCommand", <<sk>>)
       \/ \E m \in (0 - 2)..MaxModeArg : arg = Call("exposureMode", <<m>>)
       \/ \E d \in (0 - 1)..8, ps \in (0 - 1)..MaxSpeedArg, ts \in (0 - 1)..MaxSpeedArg :
             arg = Call("move", <<d, ps, ts>>)
       \/ \E ps \in {3, 30}, ts \in {3, 20}, pan \in CoordSamples, tilt \in CoordSamples,
             r \in BOOLEAN :
             arg = [name |-> "moveTo", args |-> <<ps, ts, pan, tilt>>, rel |-> r]
    /\ fpc = "call"

\* the method body up to its return: the cmd it passes to sendCommand, if any
EncodeCmd ==
    /\ fpc = "call"
    /\ res' = [ret |-> ReturnOf(arg), sends |-> CallsSendCommand(arg),
               cmd |-> IF CallsSendCommand(arg) THEN CmdOf(arg) ELSE <<>>, bytes |-> <<>>]
    /\ fpc' = IF CallsSendCommand(arg) THEN "cmd" ELSE "returned"
    /\ UNCHANGED arg
    /\ UNCHANGED <<sessionVars, codecVars, frontVars>>

\* sendCommand: Buffer.from(cmd.replace(/\s+/g, ''), 'hex') handed to serial.write
EncodeBuffer ==
    /\ fpc = "cmd"
    /\ res' = [res EXCEPT !.bytes = BufferFromHex(StripWhitespace(res.cmd))]
    /\ fpc' = "written"
    /\ UNCHANGED arg
    /\ UNCHANGED <<sessionVars, codecVars, frontVars>>

NextEncode ==
    \/ EncodeCmd
    \/ EncodeBuffer

SpecEncode == InitEncode /\ [][NextEncode]_vars

(***************************************************************************)
(* The response decoders applied to one reply chunk: the data listener of  *)
(* sendCommand converts it to hex text and the inquiry method decodes it.  *)
(***************************************************************************)
\* the inquiries that map res.response[5] through a switch
TableInquiryNames == {"powerInquiry", "focusInquiry", "whiteBalanceInquiry",
                      "exposureInquiry", "backlightInquiry", "videoFormatInquiry",
                      "colorFormatInquiry"}

\* replies 'y0 50 ss ff' for every status byte ss, and chunks too short to
\* hold a status byte
ShortReplies == {<<144>>, <<144, 80>>, <<255>>}
StatusReplies == {<<144, 80, b, 255>> : b \in 0..255} \cup ShortReplies

InitDecode ==
    /\ InitPure
    /\ \E n \in TableInquiryNames, r \in StatusReplies :
          arg = [name |-> n, reply |-> r, w |-> 0, z |-> 0]
    /\ fpc = "reply"

\* the once('data') listener: State.response = data.toString('hex')
DecodeToHex ==
    /\ fpc = "reply"
    /\ res' = [hex |-> BufferToHex(arg.reply), value |-> PendingValue]
    /\ fpc' = "response"
    /\ UNCHANGED arg
    /\ UNCHANGED <<sessionVars, codecVars, frontVars>>

\* the inquiry method after its await: the value its promise resolves with
DecodeValue ==
    /\ fpc = "response"
    /\ res' = [res EXCEPT !.value = Decode(arg.name, res.hex)]
    /\ fpc' = "decoded"
    /\ UNCHANGED arg
    /\ UNCHANGED <<sessionVars, codecVars, frontVars>>

NextDecode ==
    \/ DecodeToHex
    \/ DecodeValue

SpecDecode == InitDecode /\ [][NextDecode]_vars

\* the position reply 90 50 0w 0w 0w 0w 0z 0z 0z 0z ff for 16-bit words w and z
PositionReply(w, z) ==
    <<144, 80, (w \div 4096) % 16, (w \div 256) % 16, (w \div 16) % 16, w % 16,
               (z \div 4096) % 16, (z \div 256) % 16, (z \div 16) % 16, z % 16, 255>>

PositionArg(w, z) == [name |-> "positionInquiry", reply |-> PositionReply(w, z), w |-> w, z |-> z]

\* every pan word with tilt fe70, every tilt word with pan f750, and the
\* HOME, RIGHT and UP examples
InitPosition ==
    /\ InitPure
    /\ \/ \E w \in 0..(X10000 - 1) : arg = PositionArg(w, 65136)
       \/ \E z \in 0..(X10000 - 1) : arg = PositionArg(63312, z)
       \/ arg \in {PositionArg(0, 0), PositionArg(2216, 0), PositionArg(0, 1200)}
    /\ fpc = "reply"

SpecPosition == InitPosition /\ [][NextDecode]_vars

(***************************************************************************)
(* The encoder on values that are numbers or strings.                      *)
(***************************************************************************)
MaxSlider == 20

\* values a caller passes for a speed: numbers, their decimal text, and a word
JsSpeeds ==
    {JsNum(k) : k \in 0..MaxSlider} \cup {JsStr(NatToString10(k)) : k \in 0..MaxSlider}
    \cup {JsStr(<<"f","a","s","t">>)}

InitEncodeJs ==
    /\ InitPure
    /\ \/ \E d \in 0..7, ps \in JsSpeeds, ts \in JsSpeeds :
             arg = [name |-> "move", args |-> <<JsNum(d), ps, ts>>]
       \/ \E k \in 0..4 :
             \E m \in {JsNum(k), JsStr(NatToString10(k)), JsStr(<<"a","u","t","o">>)} :
                arg = [name |-> "exposureMode", args |-> <<m>>]
    /\ fpc = "jscall"

\* the method builds its command text and calls sendCommand
EncodeCmdJs ==
    /\ fpc = "jscall"
    /\ res' = [ret |-> "promise", sends |-> TRUE,
               cmd |-> IF arg.name = "move"
                       THEN moveCmdJs(arg.args[1].n, arg.args[2], arg.args[3])
                       ELSE exposureModeCmdJs(arg.args[1]),
               bytes |-> <<>>]
    /\ fpc' = "cmd"
    /\ UNCHANGED arg
    /\ UNCHANGED <<sessionVars, codecVars, frontVars>>

NextEncodeJs ==
    \/ EncodeCmdJs
    \/ EncodeBuffer

SpecEncodeJs == InitEncodeJs /\ [][NextEncodeJs]_vars

(***************************************************************************)
(* Motion: move in every direction at a few speeds, and stop, written      *)
(* back to back without waiting for the write callbacks.                   *)
(***************************************************************************)
MotionSpeeds == {<<1, 1>>, <<8, 4>>, <<18, 14>>}

MotionCalls ==
    {Call("move", <<d, sp[1], sp[2]>>) : d \in 0..7, sp \in MotionSpeeds}
    \cup {Call("stop", <<>>)}

InvokeMotion == \E c \in MotionCalls : Len(ops) < MaxOps /\ Submit(c)

NextMotion ==
    \/ InvokeMotion
    \/ WriteCallback

SpecMotion == Init /\ [][NextMotion]_vars

(***************************************************************************)
(* Waiting: an inquiry and a command under every event that is not the     *)
(* reply, and under replies.                                               *)
(***************************************************************************)
WaitCalls == {Call("powerInquiry", <<>>), Call("powerOn", <<>>)}

InvokeWait == \E c \in WaitCalls : Len(ops) < MaxOps /\ Submit(c)

NextWait ==
    \/ InvokeWait
    \/ WriteCallback
    \/ SerialData
    \/ SerialClose
    \/ SerialError

SpecWait == Init /\ [][NextWait]_vars

(***************************************************************************)
(* Cancellation: an inquiry and cancelCommand, with replies.               *)
(***************************************************************************)
CancelCalls == {Call("powerInquiry", <<>>), Call("cancelCommand", <<1>>)}

InvokeCancel == \E c \in CancelCalls : Len(ops) < MaxOps /\ Submit(c)

NextCancel ==
    \/ InvokeCancel
    \/ WriteCallback
    \/ SerialData

SpecCancel == Init /\ [][NextCancel]_vars

(***************************************************************************)
(* Forwarding: an inquiry under every event of the serial port.            *)
(***************************************************************************)
InvokeForward == Len(ops) < MaxOps /\ Submit(Call("powerInquiry", <<>>))

NextForward ==
    \/ InvokeForward
    \/ WriteCallback
    \/ SerialData
    \/ SerialOpen
    \/ SerialClose
    \/ SerialError

SpecForward == Init /\ [][NextForward]_vars

(***************************************************************************)
(* Chunked delivery: the serial port hands over the bytes as they arrive,  *)
(* so a reply may come whole or split in two 'data' events.                *)
(***************************************************************************)
\* the position reply RIGHT whole, its first 4 bytes, and the rest
SplitChunks == {RightReply, <<144, 80, 0, 8>>, <<10, 8, 0, 0, 0, 0, 255>>}

ChunkCalls == {Call("positionInquiry", <<>>), Call("powerInquiry", <<>>)}

InvokeChunks == \E c \in ChunkCalls : Len(ops) < MaxOps /\ Submit(c)

SerialDataSplit == Len(emitted) < MaxEvents /\ \E chunk \in SplitChunks : Deliver(chunk)

NextChunks ==
    \/ InvokeChunks
    \/ WriteCallback
    \/ SerialDataSplit

SpecChunks == Init /\ [][NextChunks]_vars

(***************************************************************************)
(* The web front end (public/main.js): the handlers of the btn elements,   *)
(* of the keyboard and of the sliders, run by the events a user causes.    *)
(***************************************************************************)
MaxMoves == 3

\* values the user drags a slider to
SliderSamples == {12}

\* the dir attribute of a btn element, as text
DirAttr(b) == IF b = "home" THEN <<"h","o","m","e">> ELSE <<b>>

DirectionButtons == {b \in Buttons : ~ToNumber(JsStr(DirAttr(b))).nan}

\* the field of the keys object and the direction of an arrow key
KeyField(k) ==
    CASE k = "ArrowUp" -> "Up" [] k = "ArrowDown" -> "Down"
      [] k = "ArrowLeft" -> "Left" [] k = "ArrowRight" -> "Right"

KeyDir(k) ==
    CASE k = "ArrowUp" -> 0 [] k = "ArrowDown" -> 1 [] k = "ArrowLeft" -> 2 [] k = "ArrowRight" -> 3

\* the page state the handlers read and write
Page == [keys |-> keys, state |-> state, socketOut |-> socketOut, moves |-> moves]

\* socket.emit(name, ...args)
socketEmit(pg, name, args) ==
    LET ev == [name |-> name, args |-> args]
    IN  [pg EXCEPT !.socketOut = [last |-> ev,
                                  motion |-> IF name \in {"move", "moveStop"} THEN ev
                                             ELSE pg.socketOut.motion],
                   !.moves = IF name = "move" THEN pg.moves + 1 ELSE pg.moves]

\* btn.addEventListener('mousedown', ...)
mousedownHandler(pg, b) ==
    IF ToNumber(JsStr(DirAttr(b))).nan THEN socketEmit(pg, "home", <<>>)
    ELSE LET dir == ToNumber(JsStr(DirAttr(b))).n
             sent == socketEmit(pg, "move", <<JsNum(dir), panSpeed, tiltSpeed>>)
         IN  [sent EXCEPT !.state[b] = TRUE]

\* btn.addEventListener('mouseup', ...)
mouseupHandler(pg, b) ==
    IF pg.state[b] THEN [socketEmit(pg, "moveStop", <<>>) EXCEPT !.state[b] = FALSE] ELSE pg

\* variant of mouseleaveHandler: no listener for mouseleave
mouseleaveUnhandled(pg, b) == pg

\* btn.addEventListener('mouseleave', ...)
mouseleaveHandler(pg, b) ==
    IF pg.state[b] THEN [socketEmit(pg, "moveStop", <<>>) EXCEPT !.state[b] = FALSE] ELSE pg

\* document.addEventListener('keydown', ...)
keydownHandler(pg, k) ==
    IF k \notin ArrowKeys THEN pg
    ELSE LET alreadyPressed == pg.keys[KeyField(k)]
             marked == [pg EXCEPT !.keys[KeyField(k)] = TRUE]
         IN  IF alreadyPressed THEN marked
             ELSE socketEmit(marked, "move", <<JsNum(KeyDir(k)), panSpeed, tiltSpeed>>)

\* document.addEventListener('keyup', ...): for a key that is not an arrow key
\* dir stays null, querySelector returns null and the handler throws before emit
keyupHandler(pg, k) ==
    IF k \notin ArrowKeys THEN pg
    ELSE socketEmit([pg EXCEPT !.keys[KeyField(k)] = FALSE], "moveStop", <<>>)

\* the page takes the state a handler left
PageBecomes(pg) ==
    /\ keys' = pg.keys
    /\ state' = pg.state
    /\ socketOut' = pg.socketOut
    /\ moves' = pg.moves

\* the user moves the pointer from the page onto a btn element
PointerEnter ==
    /\ pointer = "page"
    /\ \E b \in Buttons : pointer' = b
    /\ UNCHANGED <<heldKeys, mouseDown, pressedBtn>>
    /\ UNCHANGED <<panSpeed, tiltSpeed, keys, state, socketOut, moves>>
    /\ UNCHANGED <<sessionVars, codecVars, pureVars>>

\* the user moves the pointer off the btn element
MouseLeave ==
    /\ pointer \in Buttons
    /\ pointer' = "page"
    /\ pressedBtn' = "none"
    /\ PageBecomes(mouseleaveHandler(Page, pointer))
    /\ UNCHANGED <<heldKeys, mouseDown>>
    /\ UNCHANGED <<panSpeed, tiltSpeed, sessionVars, codecVars, pureVars>>

\* the user presses the mouse button
MouseDown ==
    /\ ~mouseDown
    /\ mouseDown' = TRUE
    /\ IF pointer \in Buttons
       THEN /\ pointer \in DirectionButtons => moves < MaxMoves
            /\ pressedBtn' = pointer
            /\ PageBecomes(mousedownHandler(Page, pointer))
       ELSE UNCHANGED <<pressedBtn, keys, state, socketOut, moves>>
    /\ UNCHANGED <<heldKeys, pointer>>
    /\ UNCHANGED <<panSpeed, tiltSpeed, sessionVars, codecVars, pureVars>>

\* the user releases the mouse button
MouseUp ==
    /\ mouseDown
    /\ mouseDown' = FALSE
    /\ pressedBtn' = "none"
    /\ IF pointer \in Buttons THEN PageBecomes(mouseupHandler(Page, pointer))
       ELSE UNCHANGED <<keys, state, socketOut, moves>>
    /\ UNCHANGED <<heldKeys, pointer>>
    /\ UNCHANGED <<panSpeed, tiltSpeed, sessionVars, codecVars, pureVars>>

\* the user presses a key that was up: an arrow key or another one ("a")
KeyDown ==
    /\ \E k \in (ArrowKeys \cup {"a"}) \ heldKeys :
        /\ k \in ArrowKeys => moves < MaxMoves
        /\ heldKeys' = heldKeys \cup {k}
        /\ PageBecomes(keydownHandler(Page, k))
    /\ UNCHANGED <<pointer, mouseDown, pressedBtn>>
    /\ UNCHANGED <<panSpeed, tiltSpeed, sessionVars, codecVars, pureVars>>

\* the keyboard repeats the keydown of a key that is held
KeyRepeat ==
    /\ \E k \in heldKeys : PageBecomes(keydownHandler(Page, k))
    /\ UNCHANGED userVars
    /\ UNCHANGED <<panSpeed, tiltSpeed, sessionVars, codecVars, pureVars>>

\* the user releases a held key
KeyUp ==
    /\ \E k \in heldKeys :
        /\ heldKeys' = heldKeys \ {k}
        /\ PageBecomes(keyupHandler(Page, k))
    /\ UNCHANGED <<pointer, mouseDown, pressedBtn>>
    /\ UNCHANGED <<panSpeed, tiltSpeed, sessionVars, codecVars, pureVars>>

\* the user drags a slider: the 'input' listener stores slider.value, a string
SliderInput ==
    /\ \E v \in SliderSamples :
        \/ panSpeed' = JsStr(NatToString10(v)) /\ UNCHANGED tiltSpeed
        \/ tiltSpeed' = JsStr(NatToString10(v)) /\ UNCHANGED panSpeed
    /\ UNCHANGED <<keys, state, socketOut, moves, userVars>>
    /\ UNCHANGED <<sessionVars, codecVars, pureVars>>

NextFront ==
    \/ PointerEnter
    \/ MouseLeave
    \/ MouseDown
    \/ MouseUp
    \/ KeyDown
    \/ KeyRepeat
    \/ KeyUp
    \/ SliderInput

SpecFront == Init /\ [][NextFront]_vars

(***************************************************************************)
(* Properties.                                                             *)
(***************************************************************************)
IsInFlight(o) == o.status \in {"writing", "awaiting"}

InquiriesInFlight == {i \in DOMAIN ops : ops[i].inquiry /\ IsInFlight(ops[i])}

\* C1: at most one inquiry is in flight (written to the transport and neither
\* resolved nor rejected) at any time.
C1_AtMostOneInquiryInFlight == Cardinality(InquiriesInFlight) <= 1

\* C2: when inquiry B is submitted while inquiry A is still unsettled, the reply
\* frame that resolves A never resolves B, and B is not awaiting a reply while A
\* is still in flight.
C2_ReplyResolvesOnlyFirstInquiry ==
    \A i, j \in DOMAIN ops :
        (i < j /\ ops[i].inquiry /\ ops[j].inquiry) =>
            /\ (ops[i].dataAt > ops[j].subAt) => ops[j].dataAt # ops[i].dataAt
            /\ (ops[j].status = "awaiting") => ~IsInFlight(ops[i])

\* the Buffer sendCommand builds for the cmd of each call
FrameOf == [c \in Calls \cup AllCalls |-> BufferFromHex(StripWhitespace(CmdOf(c)))]

\* the operations that called sendCommand, in invocation order
SendOps == SelectSeq([i \in 1..Len(ops) |-> i], LAMBDA i : CallsSendCommand(ops[i].call))

\* C3: the frames handed to serial.write are exactly the frames of the operations
\* that were submitted, in submission order.
C3_FramesWrittenInSubmissionOrder ==
    /\ Len(written) = Len(SendOps)
    /\ \A k \in DOMAIN written :
        /\ written[k].op = SendOps[k]
        /\ written[k].bytes = FrameOf[ops[SendOps[k]].call]

\* two different frames were written, the first was acknowledged and its inquiry
\* resolved by inbound data before or while the second was handed over
C3_Witness ==
    /\ Len(written) = 2
    /\ written[1].bytes # written[2].bytes
    /\ written[1].ack = "ok"
    /\ ops[written[1].op].dataAt > 0
    /\ written[2].ack = "pending"

\* index of the first 'data' event emitted after the first n events, 0 when none
FirstDataAfter(n) ==
    LET later == {k \in (n + 1)..Len(emitted) : emitted[k].name = "data"}
    IN  IF later = {} THEN 0 ELSE CHOOSE k \in later : \A m \in later : k <= m

\* C4: a resolved inquiry was resolved by the first data frame observed after the
\* inquiry was submitted, and its response is the hex text of that frame.
C4_ResolvedByFirstFrameAfterSubmission ==
    \A i \in DOMAIN ops :
        (ops[i].inquiry /\ ops[i].status = "resolved") =>
            /\ ops[i].dataAt = FirstDataAfter(ops[i].subAt)
            /\ ops[i].response = HexResponse(BufferToHex(emitted[ops[i].dataAt].data))

\* C5: a command is resolved with `true` once its write is acknowledged, whatever
\* data has or has not arrived; it is rejected with the error when the write
\* fails; it is unsettled only while the write is pending.
C5_CommandSettlesOnWriteAck ==
    \A k \in DOMAIN written :
        LET o == ops[written[k].op]
        IN  ~o.inquiry =>
                /\ (written[k].ack = "ok") =>
                      (o.status = "resolved" /\ o.response = TrueResponse /\ o.value = StateValue)
                /\ (written[k].ack = "failed") =>
                      (o.status = "rejected" /\ o.response = ErrResponse)
                /\ (written[k].ack = "pending") => (o.status = "writing")
                /\ o.dataAt = 0

\* one command resolved without any inbound data, another rejected by a failed write
C5_Witness ==
    /\ Len(ops) = 2
    /\ emitted = <<>>
    /\ ~ops[1].inquiry /\ ops[1].status = "resolved" /\ ops[1].response = TrueResponse
    /\ ~ops[2].inquiry /\ ops[2].status = "rejected" /\ written[2].ack = "failed"

\* C6: an inquiry that is awaiting its reply when the transport reports an error is
\* rejected: no inquiry stays awaiting after an 'error' event that followed its
\* write acknowledgment.
C6_TransportErrorRejectsAwaitingInquiry ==
    \A i \in DOMAIN ops :
        (ops[i].inquiry /\ ops[i].status = "awaiting") =>
            \A k \in (ops[i].ackAt + 1)..Len(emitted) : emitted[k].name # "error"

\* C7: every public operation, for every argument, returns a promise.
C7_EveryOperationReturnsAResult ==
    \A i \in DOMAIN ops : ops[i].ret = "promise" /\ ops[i].status # "none"

\* does the States cache st hold what operation o established
CacheReflects(st, o) ==
    CASE o.call.name = "powerInquiry" -> st.power = o.value
      [] o.call.name = "positionInquiry" -> st.position = o.value
      [] o.call.name = "powerOn" -> st.power = StringValue("On")
      [] OTHER -> TRUE

\* C8: in the step that resolves an inquiry or a state-changing command, the
\* cached field for it takes the decoded (or commanded) value.
C8_CacheUpdatedOnSuccess ==
    [][\A i \in DOMAIN ops :
          (ops[i].status # "resolved" /\ ops'[i].status = "resolved")
              => CacheReflects(cache', ops'[i])]_vars

\* C9: a step in which a write callback runs (rejecting or resolving an
\* operation) or in which inbound data is delivered to the listeners and
\* decoded leaves every cached States field as it was.
C9_FailureAndCorrelatorLeaveCacheUntouched ==
    [][(\/ writeQueue' # writeQueue
        \/ emitted' # emitted
        \/ \E i \in DOMAIN ops : ops'[i].status # ops[i].status)
            => cache' = cache]_vars

\* a power-on command was rejected by a failed write and the cache is as constructed
C9_Witness ==
    \E i \in DOMAIN ops :
        /\ ops[i].call.name = "powerOn"
        /\ ops[i].status = "rejected"
        /\ cache = States

\* C10: encoding a 16-bit signed integer with #toHex, expanding each digit into
\* its own byte and decoding with #extractHex and #parseHex returns the integer.
C10_CoordinateRoundTrip == (cpc = "decoded") => (cnum = Num(cv))

\* the most negative coordinate went through the whole pipeline
C10_Witness == cpc = "decoded" /\ cv = 0 - X8000 /\ cnum = Num(0 - X8000)

\* a 16-bit word read as a two's-complement integer
Signed16(w) == IF w >= X8000 THEN w - X10000 ELSE w

\* C11: positionInquiry decodes the reply 90 50 0w 0w 0w 0w 0z 0z 0z 0z ff to
\* pan = signed16(wwww) and tilt = signed16(zzzz); home decodes to (0, 0) and the
\* words 08a8, f750, 04b0, fe70 to 2216, -2224, 1200, -400.
C11_PositionReplyDecodes ==
    (fpc = "decoded" /\ arg.name = "positionInquiry") =>
        /\ res.value.tag = "position"
        /\ res.value.pan = Num(Signed16(arg.w))
        /\ res.value.tilt = Num(Signed16(arg.z))
        /\ (arg.w = 0 /\ arg.z = 0) => (res.value.pan = Num(0) /\ res.value.tilt = Num(0))
        /\ (arg.w = 2216) => res.value.pan = Num(2216)
        /\ (arg.w = 63312) => res.value.pan = Num(0 - 2224)
        /\ (arg.z = 1200) => res.value.tilt = Num(1200)
        /\ (arg.z = 65136) => res.value.tilt = Num(0 - 400)

\* the reply with pan f750 and tilt fe70 was decoded to (-2224, -400)
C11_Witness ==
    /\ fpc = "decoded"
    /\ arg.name = "positionInquiry"
    /\ arg.reply = <<144, 80, 15, 7, 5, 0, 15, 14, 7, 0, 255>>
    /\ res.value.pan = Num(0 - 2224)
    /\ res.value.tilt = Num(0 - 400)

\* the speed a frame must carry for a requested integer speed x and limit hi
ExpectedSpeed(x, hi) == IF x < 1 THEN 1 ELSE IF x > hi THEN hi ELSE x

TwoHexDigits(b) == <<HexDigits[(b \div 16) + 1], HexDigits[(b % 16) + 1]>>

CancelFrame(socket) == BufferFromHex(StripWhitespace(cancelCommandCmd(socket)))

\* C13: cancelCommand(socket) writes the cancel frame of socket clamp(socket, 1, 2),
\* and the frames of sockets 1 and 2 differ.
C13_CancelFramePerSocket ==
    (fpc = "written" /\ arg.name = "cancelCommand") =>
        LET k == ExpectedSpeed(arg.args[1], 2)
        IN  /\ res.bytes = CancelFrame(k)
            /\ res.bytes # CancelFrame(3 - k)

\* the mode byte of each exposure mode
ModeByte(m) == CASE m = 0 -> 0 [] m = 1 -> 3 [] m = 2 -> 10 [] m = 3 -> 11

\* C14: for every integer mode, exposureMode(mode) writes 81 01 04 07 0b FF with
\* b the mode byte (00, 03, 0A, 0B) of clamp(mode, 0, 3).
C14_ExposureModeClamped ==
    (fpc = "written" /\ arg.name = "exposureMode") =>
        LET m == IF arg.args[1] < 0 THEN 0 ELSE IF arg.args[1] > 3 THEN 3 ELSE arg.args[1]
        IN  /\ res.bytes = <<129, 1, 4, 7, ModeByte(m), 255>>
            /\ res.ret = "promise"

\* exposureMode(99) wrote the iris-priority frame
C14_Witness ==
    /\ fpc = "written"
    /\ arg.name = "exposureMode"
    /\ arg.args[1] = 99
    /\ res.bytes = <<129, 1, 4, 7, 11, 255>>

\* the power state named by a status byte
PowerName(b) ==
    CASE b = 2 -> "On" [] b = 3 -> "Off (standby)"
      [] b = 4 -> "Internal power circuit error" [] OTHER -> "Unknown"

\* C15: powerInquiry resolves with "On", "Off (standby)" or "Internal power
\* circuit error" for the status bytes 2, 3, 4 and with "Unknown" for every other
\* status byte and for a reply too short to hold one.
C15_PowerStatusByteDecodes ==
    (fpc = "decoded" /\ arg.name = "powerInquiry") =>
        res.value = StringValue(IF Len(arg.reply) >= 3 THEN PowerName(arg.reply[3])
                                ELSE "Unknown")

\* the names each inquiry's switch can return
TableNames(name) ==
    CASE name = "focusInquiry" -> {"Auto", "Manual"}
      [] name = "whiteBalanceInquiry" -> {"Auto", "In Door", "Out Door", "One Push WB", "Manual"}
      [] name = "exposureInquiry" ->
            {"Full Auto", "Manual", "Shutter Priority", "Iris Priority"}
      [] name = "backlightInquiry" -> {"On", "Off"}
      [] name = "videoFormatInquiry" ->
            {"1920x1080p/30", "1920x1080i/60", "1280x720p/60", "1920x1080p/25",
             "1920x1080i/50", "1280x720p/50", ""}
      [] name = "colorFormatInquiry" -> {"RGB", "YPbPr"}

\* C16: for every reply, each table-mapped inquiry resolves with a string that is
\* a name of its table or "Unknown"; it never fails.
C16_TableInquiryNeverFails ==
    (fpc = "decoded" /\ arg.name \in TableInquiryNames \ {"powerInquiry"}) =>
        /\ res.value.tag = "string"
        /\ res.value.str \in TableNames(arg.name) \cup {"Unknown"}

\* focusInquiry got a status byte outside its table and resolved with "Unknown"
C16_Witness ==
    /\ fpc = "decoded"
    /\ arg.name = "focusInquiry"
    /\ arg.reply = <<144, 80, 9, 255>>
    /\ res.value = StringValue("Unknown")

\* C18: every frame handed to the transport is an even number of valid hex
\* digits, begins with the address byte 81 and ends with the terminator FF.
C18_FramesWellFormed ==
    (fpc = "written") =>
        LET t == StripWhitespace(res.cmd)
        IN  /\ Len(t) % 2 = 0
            /\ \A k \in DOMAIN t : HexVal(t[k]) >= 0
            /\ Len(res.bytes) * 2 = Len(t)
            /\ res.bytes[1] = 129
            /\ res.bytes[Len(res.bytes)] = 255

\* C19: decoding the eight position bytes of the moveTo frame with the
\* position-inquiry decoder returns the requested pan and tilt.
C19_MoveToPositionBytes ==
    (fpc = "written" /\ arg.name = "moveTo") =>
        LET hex == BufferToHex(res.bytes)
        IN  /\ parseHex(extractHex(Slice(hex, 12, 20))) = Num(arg.args[3])
            /\ parseHex(extractHex(Slice(hex, 20, 28))) = Num(arg.args[4])

\* the frame move must write for a direction and two in-range speeds
ExpectedMoveFrame(d, ps, ts) ==
    LET dir == CASE d = 0 -> <<3, 1>> [] d = 1 -> <<3, 2>> [] d = 2 -> <<1, 3>>
                 [] d = 3 -> <<2, 3>> [] d = 4 -> <<1, 1>> [] d = 5 -> <<2, 1>>
                 [] d = 6 -> <<1, 2>> [] d = 7 -> <<2, 2>>
    IN  <<129, 1, 6, 1, ps, ts>> \o dir \o <<255>>

\* C17: whatever was invoked before and whether or not it was awaited, the frame
\* written for stop is 81 01 06 01 00 00 03 03 FF and the frame written for each
\* move stays the one of its own direction and speeds.
C17_StopFrameFixed ==
    \A k \in 1..Len(written) :
        LET c == ops[written[k].op].call
        IN  /\ (c.name = "stop") => written[k].bytes = <<129, 1, 6, 1, 0, 0, 3, 3, 255>>
            /\ (c.name = "move") =>
                   written[k].bytes = ExpectedMoveFrame(c.args[1], c.args[2], c.args[3])

\* move(Up, 8, 4) then stop, the write of move not yet acknowledged
C17_Witness ==
    /\ Len(written) = 2
    /\ ops[1].call = Call("move", <<0, 8, 4>>)
    /\ ops[1].status = "writing"
    /\ ops[2].call.name = "stop"
    /\ written[1].bytes = <<129, 1, 6, 1, 8, 4, 3, 1, 255>>
    /\ written[2].bytes = <<129, 1, 6, 1, 0, 0, 3, 3, 255>>

\* C20: an inquiry awaiting its reply keeps awaiting, with its listener armed,
\* across every step that is not an inbound data event: submissions, write
\* callbacks, close and error events.
C20_AwaitingEndsOnlyOnData ==
    [][\A i \in 1..Len(ops) :
          (/\ ops[i].status = "awaiting"
           /\ \/ emitted' = emitted
              \/ emitted'[Len(emitted')].name # "data")
          => /\ ops'[i].status = "awaiting"
             /\ \E k \in 1..Len(listeners') : listeners'[k] = i]_vars

\* an inquiry acknowledged before any event still awaits after an error event,
\* a close event and a later command that was submitted and resolved
C20_Witness ==
    /\ Len(ops) = 2
    /\ ops[1].call.name = "powerInquiry"
    /\ ops[1].status = "awaiting"
    /\ ops[1].ackAt = 0
    /\ ops[2].status = "resolved"
    /\ Len(emitted) = 2
    /\ emitted[1].name = "error"
    /\ emitted[2].name = "close"

\* the written entry of operation i
WrittenOf(i) == CHOOSE k \in 1..Len(written) : written[k].op = i

\* C21: submitting cancelCommand, and the write callback of a cancelCommand,
\* leave every inquiry that awaits its reply awaiting with its listener armed;
\* the cancel operation is settled exactly when its own write was reported.
C21_CancelLeavesInquiryPending ==
    [][/\ \A i \in 1..Len(ops) :
            (/\ ops[i].status = "awaiting"
             /\ emitted' = emitted)
            => /\ ops'[i] = ops[i]
               /\ \E k \in 1..Len(listeners') : listeners'[k] = i
       /\ \A i \in 1..Len(ops') :
            (ops'[i].call.name = "cancelCommand") =>
                /\ (ops'[i].status = "writing") <=> (written'[WrittenOf(i)'].ack = "pending")
                /\ (ops'[i].status = "resolved") <=> (written'[WrittenOf(i)'].ack = "ok")
                /\ (ops'[i].status = "rejected") <=> (written'[WrittenOf(i)'].ack = "failed")
                /\ ops'[i].dataAt = 0]_vars

\* an inquiry awaits its reply while a cancelCommand submitted after the
\* inquiry's acknowledgment has been written and resolved
C21_Witness ==
    /\ Len(ops) = 2
    /\ ops[1].call.name = "powerInquiry"
    /\ ops[1].status = "awaiting"
    /\ ops[2].call.name = "cancelCommand"
    /\ ops[2].status = "resolved"
    /\ listeners = <<1>>
    /\ Len(written) = 2

\* the two direction bytes of a written move frame
DirectionPair(bytes) == <<bytes[7], bytes[8]>>

\* the pair each direction must send
PairOf(d) ==
    CASE d = 0 -> <<3, 1>> [] d = 1 -> <<3, 2>> [] d = 2 -> <<1, 3>> [] d = 3 -> <<2, 3>>
      [] d = 4 -> <<1, 1>> [] d = 5 -> <<2, 1>> [] d = 6 -> <<1, 2>> [] d = 7 -> <<2, 2>>

WrittenModeByte(m) == BufferFromHex(StripWhitespace(exposureModeCmd(m)))[5]

ExposureName(m) ==
    CASE m = 0 -> "Full Auto" [] m = 1 -> "Manual"
      [] m = 2 -> "Shutter Priority" [] m = 3 -> "Iris Priority"

\* C24: when the reply to exposureInquiry carries the mode byte that
\* exposureMode(m) wrote, exposureInquiry resolves with the name of m.
C24_ExposureSetInquireAgree ==
    (fpc = "decoded" /\ arg.name = "exposureInquiry" /\ Len(arg.reply) = 4) =>
        \A m \in 0..3 :
            (arg.reply[3] = WrittenModeByte(m)) => res.value = StringValue(ExposureName(m))

\* C25: the Session has re-emitted to its subscribers exactly the events the
\* serial port emitted, same names and payloads, once each and in the same
\* order, whatever operations are pending and whether or not an inquiry awaits.
C25_EventsForwardedOnceInOrder == emitted = received

\* a data event and a close event were forwarded while the only operation was
\* still being written and no inquiry awaited a reply
C25_Witness ==
    /\ Len(received) = 2
    /\ received[1] = [name |-> "data", data |-> PowerOnReply]
    /\ received[2].name = "close"
    /\ emitted = received
    /\ listeners = <<>>
    /\ Len(ops) = 1
    /\ ops[1].status = "writing"

\* the hex text of the complete reply frames the device sends
CompleteFrames == {BufferToHex(RightReply), BufferToHex(PowerOnReply)}

\* C26: an inquiry resolves only with one complete reply frame, ending in the
\* terminator ff, also when the reply arrives split across data chunks.
C26_ResolvesWithCompleteFrame ==
    \A i \in 1..Len(ops) :
        (ops[i].inquiry /\ ops[i].status = "resolved") =>
            /\ ops[i].response.tag = "hex"
            /\ ops[i].response.hex \in CompleteFrames

\* C27: an inquiry resolves only with a data event that came after its
\* submission; a data event with no listener armed changes no operation, and
\* after every data event no once('data') listener is left registered.
C27_NoStaleReply ==
    [][/\ \A i \in 1..Len(ops') :
            (ops'[i].inquiry /\ ops'[i].status = "resolved") =>
                /\ ops'[i].dataAt > ops'[i].subAt
                /\ received'[ops'[i].dataAt].name = "data"
                /\ ops'[i].response = HexResponse(BufferToHex(received'[ops'[i].dataAt].data))
       /\ (Len(received') > Len(received) /\ received'[Len(received')].name = "data") =>
            /\ listeners' = <<>>
            /\ (listeners = <<>>) => (ops' = ops)]_vars

\* a data event came before the inquiry was submitted and was dropped; the
\* inquiry was resolved by the next one
C27_Witness ==
    /\ Len(received) = 2
    /\ received[1].name = "data"
    /\ received[2].name = "data"
    /\ Len(ops) >= 1
    /\ ops[1].inquiry
    /\ ops[1].subAt = 1
    /\ ops[1].status = "resolved"
    /\ ops[1].dataAt = 2
    /\ listeners = <<>>

\* a numeric parameter of the call holds a value that is not a number
Malformed(c) == \E k \in 1..Len(c.args) : ToNumber(c.args[k]).nan

\* C22: a call with a non-numeric value for a numeric parameter fails with
\* InvalidParameter and writes no frame; a call whose values are all numeric,
\* in range or not, does not fail with InvalidParameter.
C22_MalformedValueRejected ==
    (fpc \in {"cmd", "written"}) =>
        IF Malformed(arg)
        THEN res.ret = "InvalidParameter" /\ ~res.sends /\ fpc # "written"
        ELSE res.ret # "InvalidParameter"

\* C29: for speeds forwarded from the sliders, as numbers or as decimal text,
\* the speed bytes of the written move frame are the slider values clamped to
\* 1..18 (pan) and 1..14 (tilt).
C29_SliderSpeedsClamped ==
    (fpc = "written" /\ arg.name = "move" /\ ~Malformed(arg)) =>
        /\ Len(res.bytes) = 9
        /\ res.bytes[5] = ExpectedSpeed(ToNumber(arg.args[2]).n, 18)
        /\ res.bytes[6] = ExpectedSpeed(ToNumber(arg.args[3]).n, 14)

\* no direction button is pressed and no arrow key is held
NothingHeld == pressedBtn \notin DirectionButtons /\ heldKeys \cap ArrowKeys = {}

\* C28: when no direction button is pressed and no arrow key is held, the last
\* motion event sent to the server is 'moveStop', or none was sent; releasing an
\* arrow key, and releasing or leaving a pressed direction button, sends
\* 'moveStop'; the repeated keydown of a held key sends nothing.
C28_MoveFollowedByMoveStop ==
    [][/\ NothingHeld' => socketOut'.motion.name \in {"moveStop", "none"}
       /\ (\E k \in ArrowKeys : k \in heldKeys /\ k \notin heldKeys')
              => socketOut'.last.name = "moveStop"
       /\ (pressedBtn \in DirectionButtons /\ pressedBtn' = "none")
              => socketOut'.last.name = "moveStop"
       /\ (userVars' = userVars /\ panSpeed' = panSpeed /\ tiltSpeed' = tiltSpeed)
              => (socketOut' = socketOut /\ moves' = moves)]_vars

\* a button press and a key press each sent 'move', the pointer left the
\* button, the key was released, and the last event sent is 'moveStop'
C28_Witness ==
    /\ moves = 2
    /\ NothingHeld
    /\ pointer = "page"
    /\ mouseDown
    /\ socketOut.last.name = "moveStop"

====
